---- MODULE Spec2Model ----
(***************************************************************************)
(* Room state synchronisation of rmaps-online: the RoomSync class          *)
(* (src/src/lib/c3nav.ts, "Simple WebSocket-based sync layer"), the        *)
(* sessions of one room, their sockets and the relay they talk to.         *)
(***************************************************************************)
EXTENDS Integers, Sequences, FiniteSets, TLC

(* ------------------------------ bounds -------------------------------- *)
NumSessions == 2
NumWaypoints == 2
MaxNow == 1
MaxLog == 2
MaxStamp == 2

(* -------------------------- program constants ------------------------- *)
maxParticipants == 10

Sessions == 1..NumSessions
WaypointIds == 1..NumWaypoints
Statuses == {"online", "away"}

(* ------------------------------ records ------------------------------- *)
\* LocationState; kind "absent" is a missing `location` property, kind
\* "null" is the JSON null that clearLocation broadcasts.
Absent == [kind |-> "absent", latitude |-> 0, timestamp |-> 0, source |-> "none", indoor |-> 0]
Null == [kind |-> "null", latitude |-> 0, timestamp |-> 0, source |-> "none", indoor |-> 0]
Loc(lat, ts) == [kind |-> "loc", latitude |-> lat, timestamp |-> ts, source |-> "gps", indoor |-> 0]
GpsLocations == {Loc(t, t) : t \in 1..MaxStamp}

\* ParticipantState
Participant(p, st, seen, loc) == [id |-> p, status |-> st, lastSeen |-> seen, location |-> loc]

\* WaypointState
Waypoint(w, by) == [id |-> w, createdBy |-> by]

\* RoomState
RoomState(rid, parts, wps) == [id |-> rid, participants |-> parts, waypoints |-> wps]

\* RoomSync.createInitialState: a fresh room with a random id, no
\* participants and no waypoints.
createInitialState(rid) == RoomState(rid, <<>>, <<>>)

\* a parsed cache value that is an object without participants and
\* waypoints, such as {}; its id marks it and its other fields are never read
NotARoom == [id |-> 0 - 1, participants |-> <<>>, waypoints |-> <<>>]

\* this.state has a participants object and a waypoints array
IsRoom(st) == st # NotARoom

(* ------------------------------ messages ------------------------------ *)
JoinMsg(part) == [type |-> "join", participant |-> part]
LeaveMsg(p) == [type |-> "leave", participantId |-> p]
LocationMsg(p, loc) == [type |-> "location", participantId |-> p, location |-> loc]
StatusMsg(p, st) == [type |-> "status", participantId |-> p, status |-> st]
WaypointAddMsg(wp) == [type |-> "waypoint_add", waypoint |-> wp]
WaypointRemoveMsg(w) == [type |-> "waypoint_remove", waypointId |-> w]
FullStateMsg(st) == [type |-> "full_state", state |-> st]
RequestStateMsg == [type |-> "request_state"]

(* ------------------------- map / array helpers ------------------------ *)
\* participants[k] = v on a JS object
Put(f, k, v) == [x \in (DOMAIN f) \cup {k} |-> IF x = k THEN v ELSE f[x]]

\* delete participants[k]
Del(f, k) == [x \in (DOMAIN f) \ {k} |-> f[x]]

\* Array.prototype.filter
RECURSIVE Filter(_, _)
Filter(seq, w) ==
  IF seq = <<>> THEN <<>>
  ELSE IF Head(seq).id # w THEN <<Head(seq)>> \o Filter(Tail(seq), w)
       ELSE Filter(Tail(seq), w)

(* ------------------------------ snapshots ----------------------------- *)
\* What the application holds after getState() or onStateChange: the object
\* { ...this.state }. The spread copies the top level only, so the snapshot
\* shares the participants object and the waypoints array with this.state.
\*   alias   "map": its participants object is this.state.participants;
\*           "own": only the record of the session's own participant is
\*                  still the one in this.state; "none": nothing is shared
\*   sameWps its waypoints array is this.state.waypoints
\*   first   what the snapshot showed when it was handed out
\*   snap    what it shows now
NoSnapshot ==
  [taken |-> FALSE, alias |-> "none", sameWps |-> FALSE,
   first |-> createInitialState(0), snap |-> createInitialState(0)]

Snapshot(st) == [taken |-> TRUE, alias |-> "map", sameWps |-> TRUE, first |-> st, snap |-> st]

\* The snapshot h after the operation of frame type m.type took the state
\* from old to st. join, leave, location and status assign into the
\* participants object or into a record in place and waypoint_add pushes in
\* place; waypoint_remove assigns a new array (filter) and full_state a new
\* state object, into which the old record of the own participant is put.
Through(h, self, old, st, m) ==
  IF ~h.taken THEN h
  ELSE LET alias ==
             CASE h.alias = "map" ->
                    IF m.type = "full_state"
                    THEN (IF self \in DOMAIN old.participants THEN "own" ELSE "none")
                    ELSE "map"
               [] h.alias = "own" ->
                    IF \/ (m.type = "join" /\ m.participant.id = self)
                       \/ (m.type = "leave" /\ m.participantId = self)
                    THEN "none" ELSE "own"
               [] OTHER -> "none"
           wps == h.sameWps /\ m.type \notin {"waypoint_remove", "full_state"}
           parts ==
             CASE alias = "map" -> st.participants
               [] alias = "own" -> [h.snap.participants EXCEPT ![self] = st.participants[self]]
               [] OTHER -> h.snap.participants
       IN [h EXCEPT !.alias = alias, !.sameWps = wps,
                    !.snap = [h.snap EXCEPT !.participants = parts,
                                            !.waypoints = IF wps THEN st.waypoints
                                                          ELSE h.snap.waypoints]]

(* --------------------------- the merge engine ------------------------- *)
\* case 'full_state' without the re-insertion of the own participant
HandleFullState_NoSelf(st, self, m) == m.state

\* case 'full_state' that drops the snapshot and keeps the local state
HandleFullState_Ignore(st, self, m) == st

\* RoomSync.handleMessage, case 'full_state'
HandleFullState(st, self, m) ==
  IF self \in DOMAIN st.participants
  THEN [m.state EXCEPT !.participants = Put(m.state.participants, self, st.participants[self])]
  ELSE m.state

\* RoomSync.handleMessage: the state after `message` has been handled by the
\* session of participant `self` at time `t`.
HandleMessage(st, self, m, t) ==
  CASE m.type = "full_state" -> HandleFullState(st, self, m)
    [] m.type = "join" ->
         [st EXCEPT !.participants = Put(@, m.participant.id, m.participant)]
    [] m.type = "leave" ->
         [st EXCEPT !.participants = Del(@, m.participantId)]
    [] m.type = "location" ->
         IF m.participantId \in DOMAIN st.participants
         THEN [st EXCEPT !.participants[m.participantId].location = m.location,
                         !.participants[m.participantId].lastSeen = t]
         ELSE st
    [] m.type = "status" ->
         IF m.participantId \in DOMAIN st.participants
         THEN [st EXCEPT !.participants[m.participantId].status = m.status,
                         !.participants[m.participantId].lastSeen = t]
         ELSE st
    [] m.type = "waypoint_add" ->
         [st EXCEPT !.waypoints = Append(@, m.waypoint)]
    [] m.type = "waypoint_remove" ->
         [st EXCEPT !.waypoints = Filter(@, m.waypointId)]
    [] OTHER -> st

(* ------------------------------- state -------------------------------- *)
VARIABLES
  state,           \* RoomSync.state of every session
  storage,         \* localStorage entry rmaps_room_<slug> of every session's browser
  connected,       \* last argument of onConnectionChange, "unset" before the first call
  socks,           \* readyState of every WebSocket a session has created, in creation order
  ws,              \* RoomSync.ws: index into socks, 0 for null
  reconnectTimer,  \* RoomSync.reconnectTimer: "null", "pending", or "stale" (fired or cleared id)
  connectCalled,   \* the application has called connect()
  left,            \* the application has called leave()
  ops,             \* number of public mutation calls made on the session
  toRelay,         \* frames in flight from a session to the relay
  toClient,        \* frames in flight from the relay to a session
  relay,           \* the relay's room state
  now,             \* the clock read by new Date()
  start,           \* merge engine runs: the state the first frame was delivered to
  applied,         \* merge engine runs: the frames handled so far, in order
  held,            \* the snapshot the application of every session holds
  thrown,          \* a public method of the session has thrown to its caller
  hook,            \* the useRoom hook of one mounted page and the room documents
  geo              \* the useLocationSharing hook of that page

vars == <<state, storage, connected, socks, ws, reconnectTimer, connectCalled, left,
          ops, toRelay, toClient, relay, now, start, applied, held, thrown, hook, geo>>

netVars == <<socks, ws, reconnectTimer, connectCalled, left, toRelay, toClient, relay, connected>>

MaxSockets == 3
MaxOps == 2
NumIndoor == 1

RelayId == 0

NoEntry == [present |-> FALSE, value |-> createInitialState(RelayId)]
Stored(st) == [present |-> TRUE, value |-> st]

\* readyState of this.ws, "none" when this.ws is null
ReadyState(s) == IF ws[s] = 0 THEN "none" ELSE socks[s][ws[s]]

\* the session has a socket on which frames can still arrive
Receiving(s) == \E i \in DOMAIN socks[s] : socks[s][i] \in {"open", "closing"}

\* the relay counts the session among its active sessions
Active(s) == \E i \in DOMAIN socks[s] : socks[s][i] = "open"

\* RoomSync.send: the frames in flight after send(message)
send(s, m) ==
  IF ReadyState(s) = "open" THEN [toRelay EXCEPT ![s] = Append(@, m)] ELSE toRelay

\* saveState whose setItem throws: the error is caught, nothing is stored
saveState_Failing(s, st) == storage

\* RoomSync.saveState, as called by notifyStateChange. The entry is
\* JSON.stringify(this.state); the state holds strings, numbers, plain
\* objects and arrays only, and a missing location is left out by stringify
\* as it is by the model, so the text stands for exactly the state.
saveState(s, st) == [storage EXCEPT ![s] = Stored(st)]

(* ----------------------- RoomSync public methods ---------------------- *)
mergeVars == <<start, applied>>
sockVars == <<socks, ws, reconnectTimer, connectCalled, left, toClient, relay, connected>>

\* the application may still call a mutation method on the session
\* number of public mutation calls made so far in the room
RECURSIVE Sum(_, _)
Sum(f, S) == IF S = {} THEN 0 ELSE LET x == CHOOSE y \in S : TRUE IN f[x] + Sum(f, S \ {x})

Calls == Sum(ops, Sessions)

\* number of sockets created so far in the room
Sockets == Sum([s \in Sessions |-> Len(socks[s])], Sessions)

MayCall(s) == ~left[s] /\ Calls < MaxOps /\ IsRoom(state[s])

\* a mutation method that takes effect only while the socket is open
Commit_WhenOpen(s, st, m) ==
  /\ ops' = [ops EXCEPT ![s] = @ + 1]
  /\ IF ReadyState(s) = "open"
     THEN /\ state' = [state EXCEPT ![s] = st]
          /\ toRelay' = send(s, m)
          /\ storage' = saveState(s, st)
          /\ held' = [held EXCEPT ![s] = Through(@, s, state[s], st, m)]
     ELSE UNCHANGED <<state, toRelay, storage, held>>

\* what every mutation method does last: send, then notifyStateChange
Commit(s, st, m) ==
  /\ state' = [state EXCEPT ![s] = st]
  /\ toRelay' = send(s, m)
  /\ storage' = saveState(s, st)
  /\ held' = [held EXCEPT ![s] = Through(@, s, state[s], st, m)]
  /\ ops' = [ops EXCEPT ![s] = @ + 1]

\* a call that finds the own participant missing and still sends a frame
Skip_Sends(s) ==
  /\ ops' = [ops EXCEPT ![s] = @ + 1]
  /\ toRelay' = send(s, LocationMsg(s, Null))
  /\ UNCHANGED <<state, storage, held>>

\* a call that finds the own participant missing and returns
Skip(s) ==
  /\ ops' = [ops EXCEPT ![s] = @ + 1]
  /\ UNCHANGED <<state, toRelay, storage, held>>

Registered(s) == s \in DOMAIN state[s].participants

\* RoomSync.join(participant): the entry is stored under participant.id,
\* which the method does not compare with this.participantId
JoinAs(s, part) ==
  /\ MayCall(s)
  /\ Commit(s, [state[s] EXCEPT !.participants = Put(@, part.id, part)], JoinMsg(part))
  /\ UNCHANGED <<sockVars, now, mergeVars, thrown, hook, geo>>

\* RoomSync.join(participant), called with the session's own participant
Join(s) == JoinAs(s, Participant(s, "online", now, Absent))

\* RoomSync.getState(), or the application keeping the argument of
\* onStateChange: both are { ...this.state }
GetState(s) ==
  /\ ~held[s].taken
  /\ held' = [held EXCEPT ![s] = Snapshot(state[s])]
  /\ UNCHANGED <<state, storage, ops, now, mergeVars, thrown, hook, geo, netVars>>

\* RoomSync.updateLocation(location)
UpdateLocation(s, loc) ==
  /\ MayCall(s)
  /\ IF Registered(s)
     THEN Commit(s, [state[s] EXCEPT !.participants[s].location = loc,
                                     !.participants[s].lastSeen = now],
                 LocationMsg(s, loc))
     ELSE Skip(s)
  /\ UNCHANGED <<sockVars, now, mergeVars, thrown, hook, geo>>

\* clearLocation that broadcasts the null location but keeps the own one
ClearLocation_KeepsOwn(s) ==
  /\ MayCall(s)
  /\ IF Registered(s)
     THEN Commit(s, [state[s] EXCEPT !.participants[s].lastSeen = now], LocationMsg(s, Null))
     ELSE Skip(s)
  /\ UNCHANGED <<sockVars, now, mergeVars, thrown, hook, geo>>

\* RoomSync.clearLocation()
ClearLocation(s) ==
  /\ MayCall(s)
  /\ IF Registered(s)
     THEN Commit(s, [state[s] EXCEPT !.participants[s].location = Absent,
                                     !.participants[s].lastSeen = now],
                 LocationMsg(s, Null))
     ELSE Skip(s)
  /\ UNCHANGED <<sockVars, now, mergeVars, thrown, hook, geo>>

\* RoomSync.updateStatus(status)
UpdateStatus(s, st) ==
  /\ MayCall(s)
  /\ IF Registered(s)
     THEN Commit(s, [state[s] EXCEPT !.participants[s].status = st,
                                     !.participants[s].lastSeen = now],
                 StatusMsg(s, st))
     ELSE Skip(s)
  /\ UNCHANGED <<sockVars, now, mergeVars, thrown, hook, geo>>

\* the location object updateIndoorPosition ends up with
IndoorLocation(existing, indoor, t) ==
  LET base == IF existing.kind = "loc" THEN existing
              ELSE [kind |-> "loc", latitude |-> 0, timestamp |-> t, source |-> "manual", indoor |-> 0]
  IN [base EXCEPT !.indoor = indoor, !.timestamp = t, !.source = "manual"]

\* RoomSync.updateIndoorPosition(indoor)
UpdateIndoorPosition(s, indoor) ==
  /\ MayCall(s)
  /\ IF Registered(s)
     THEN LET loc == IndoorLocation(state[s].participants[s].location, indoor, now)
          IN Commit(s, [state[s] EXCEPT !.participants[s].location = loc,
                                        !.participants[s].lastSeen = now],
                    LocationMsg(s, loc))
     ELSE Skip(s)
  /\ UNCHANGED <<sockVars, now, mergeVars, thrown, hook, geo>>

\* RoomSync.addWaypoint(waypoint)
AddWaypoint(s, w) ==
  /\ MayCall(s)
  /\ LET wp == Waypoint(w, s)
     IN Commit(s, [state[s] EXCEPT !.waypoints = Append(@, wp)], WaypointAddMsg(wp))
  /\ UNCHANGED <<sockVars, now, mergeVars, thrown, hook, geo>>

\* RoomSync.removeWaypoint(waypointId)
RemoveWaypoint(s, w) ==
  /\ MayCall(s)
  /\ Commit(s, [state[s] EXCEPT !.waypoints = Filter(@, w)], WaypointRemoveMsg(w))
  /\ UNCHANGED <<sockVars, now, mergeVars, thrown, hook, geo>>

\* ws.close(): a socket that is connecting or open starts closing
CloseSocket(sk, i) ==
  IF i # 0 /\ sk[i] \in {"connecting", "open"} THEN [sk EXCEPT ![i] = "closing"] ELSE sk

\* RoomSync.leave()
Leave(s) ==
  /\ Calls < MaxOps
  /\ IsRoom(state[s])
  /\ LET st == [state[s] EXCEPT !.participants = Del(@, s)]
     IN /\ state' = [state EXCEPT ![s] = st]
        /\ toRelay' = send(s, LeaveMsg(s))
        /\ storage' = saveState(s, st)
        /\ held' = [held EXCEPT ![s] = Through(@, s, state[s], st, LeaveMsg(s))]
  /\ socks' = [socks EXCEPT ![s] = CloseSocket(@, ws[s])]
  /\ ws' = [ws EXCEPT ![s] = 0]
  /\ reconnectTimer' = [reconnectTimer EXCEPT ![s] = IF @ = "pending" THEN "stale" ELSE @]
  /\ left' = [left EXCEPT ![s] = TRUE]
  /\ ops' = [ops EXCEPT ![s] = @ + 1]
  /\ UNCHANGED <<connectCalled, toClient, relay, connected, now, mergeVars, thrown, hook, geo>>

(* --------------------------- the connection --------------------------- *)
appVars == <<state, storage, ops, now, mergeVars, held, thrown, hook, geo>>

\* RoomSync.connect(syncUrl) with a sync URL: `ok` is whether the WebSocket
\* constructor returns; when it throws, the catch block reports false.
DoConnect(s, ok) ==
  IF ok
  THEN /\ socks' = [socks EXCEPT ![s] = Append(@, "connecting")]
       /\ ws' = [ws EXCEPT ![s] = Len(socks[s]) + 1]
       /\ UNCHANGED connected
  ELSE /\ connected' = [connected EXCEPT ![s] = "false"]
       /\ UNCHANGED <<socks, ws>>

\* the application calls connect(syncUrl)
Connect(s, ok) ==
  /\ ~connectCalled[s]
  /\ ~left[s]
  /\ Sockets < MaxSockets
  /\ connectCalled' = [connectCalled EXCEPT ![s] = TRUE]
  /\ DoConnect(s, ok)
  /\ UNCHANGED <<reconnectTimer, left, toRelay, toClient, relay, appVars>>

\* the application calls connect() without a URL: local-only mode
ConnectLocalOnly(s) ==
  /\ ~connectCalled[s]
  /\ ~left[s]
  /\ connectCalled' = [connectCalled EXCEPT ![s] = TRUE]
  /\ connected' = [connected EXCEPT ![s] = "true"]
  /\ UNCHANGED <<socks, ws, reconnectTimer, left, toRelay, toClient, relay, appVars>>

\* ws.onopen: the connection is established
OnOpen(s, i) ==
  /\ i \in DOMAIN socks[s]
  /\ socks[s][i] = "connecting"
  /\ socks' = [socks EXCEPT ![s][i] = "open"]
  /\ connected' = [connected EXCEPT ![s] = "true"]
  /\ toRelay' = [toRelay EXCEPT ![s] =
                   IF ws[s] = i THEN Append(@, RequestStateMsg) ELSE @]
  /\ UNCHANGED <<ws, reconnectTimer, connectCalled, left, toClient, relay, appVars>>

\* ws.onclose that reports the loss but does not call scheduleReconnect
OnClose_NoReconnect(s, i) ==
  /\ i \in DOMAIN socks[s]
  /\ socks[s][i] \in {"connecting", "open", "closing"}
  /\ socks' = [socks EXCEPT ![s][i] = "closed"]
  /\ connected' = [connected EXCEPT ![s] = "false"]
  /\ toClient' = [toClient EXCEPT ![s] = <<>>]
  /\ UNCHANGED <<reconnectTimer, ws, connectCalled, left, toRelay, relay, appVars>>

\* ws.onclose: the connection ended (lost, refused, or closed by close());
\* frames the relay had in flight to the session are gone.
OnClose(s, i) ==
  /\ i \in DOMAIN socks[s]
  /\ socks[s][i] \in {"connecting", "open", "closing"}
  /\ socks' = [socks EXCEPT ![s][i] = "closed"]
  /\ connected' = [connected EXCEPT ![s] = "false"]
  /\ reconnectTimer' = [reconnectTimer EXCEPT ![s] = "pending"]
  /\ toClient' = [toClient EXCEPT ![s] = <<>>]
  /\ UNCHANGED <<ws, connectCalled, left, toRelay, relay, appVars>>

\* the callback scheduleReconnect armed runs: connect(syncUrl) again
ReconnectTimerFires(s, ok) ==
  /\ reconnectTimer[s] = "pending"
  /\ Sockets < MaxSockets
  /\ reconnectTimer' = [reconnectTimer EXCEPT ![s] = "stale"]
  /\ DoConnect(s, ok)
  /\ UNCHANGED <<connectCalled, left, toRelay, toClient, relay, appVars>>

\* ws.onmessage: the next frame from the relay is parsed and handled, then
\* notifyStateChange saves and publishes the state.
OnMessage(s) ==
  /\ Receiving(s)
  /\ toClient[s] # <<>>
  /\ LET st == HandleMessage(state[s], s, Head(toClient[s]), now)
     IN /\ state' = [state EXCEPT ![s] = st]
        /\ storage' = saveState(s, st)
        /\ held' = [held EXCEPT ![s] = Through(@, s, state[s], st, Head(toClient[s]))]
  /\ toClient' = [toClient EXCEPT ![s] = Tail(@)]
  /\ UNCHANGED <<socks, ws, reconnectTimer, connectCalled, left, toRelay, relay,
                 connected, ops, now, mergeVars, thrown, hook, geo>>

(* ------------------------------ the relay ----------------------------- *)
\* the frames in flight to the sessions after the relay has rebroadcast m,
\* received from session s, to every other active session
Rebroadcast(s, m) ==
  [o \in Sessions |-> IF o # s /\ Active(o) THEN Append(toClient[o], m) ELSE toClient[o]]

\* the relay takes the next frame of session s: request_state is answered
\* with full_state, a change is merged into the room state and rebroadcast
RelayReceive(s) ==
  /\ toRelay[s] # <<>>
  /\ LET m == Head(toRelay[s])
     IN IF m.type = "request_state"
        THEN /\ toClient' = [toClient EXCEPT ![s] =
                               IF Active(s) THEN Append(@, FullStateMsg(relay)) ELSE @]
             /\ UNCHANGED relay
        ELSE /\ relay' = HandleMessage(relay, RelayId, m, now)
             /\ toClient' = Rebroadcast(s, m)
  /\ toRelay' = [toRelay EXCEPT ![s] = Tail(@)]
  /\ UNCHANGED <<socks, ws, reconnectTimer, connectCalled, left, connected, appVars>>

\* time passes
Tick ==
  /\ now < MaxNow
  /\ now' = now + 1
  /\ UNCHANGED <<state, storage, ops, mergeVars, thrown, hook, geo, netVars, held>>

(* ------------------------- the hooks of the page ---------------------- *)
\* useRoom before its first effect run. `stored` says whether localStorage
\* holds a document URL for the slug, left by an earlier visit.
\*   storedUrl  localStorage has rmaps_room_<slug>
\*   nDocs      number of room documents created so far, the stored one included
\*   entries    participant id |-> document it is in and its status
\*   nextId     the next id nanoid() returns
\*   handleRef  handleRef.current: a document number, 0 for null
\*   pidRef     participantIdRef.current: an id, 0 for null
\*   runs       the runs of the init effect: id drawn, the run's `mounted`
\*              flag, and whether findOrCreateRoom is still awaited
\*   unmounted  the component has unmounted
HookStart(stored) ==
  [storedUrl |-> stored, nDocs |-> IF stored THEN 1 ELSE 0, entries |-> <<>>, nextId |-> 1,
   handleRef |-> 0, pidRef |-> 0, runs |-> <<>>, unmounted |-> FALSE]

\* useLocationSharing after its first render, on a page whose room is
\* connected or not.
\*   watch       watchIdRef.current is not null
\*   isSharing   the isSharing state
\*   requests    getCurrentPosition requests not answered yet
\*   current     currentLocation: 0 for null, else the latitude
\*   error       the error state is set
\*   room        the location updateLocation last wrote for the participant
\*   calls       times onLocationUpdate was invoked
\*   stopped     stopSharing has returned and neither startSharing nor
\*               requestUpdate was called since
\*   late        onLocationUpdate was invoked while `stopped`
GeoStart ==
  [watch |-> FALSE, isSharing |-> FALSE, requests |-> 0, current |-> 0, error |-> FALSE,
   room |-> 0, calls |-> 0, stopped |-> FALSE, late |-> FALSE]

(* --------------------------- the room protocol ------------------------ *)
\* every session right after its constructor, nothing stored, no socket
SyncInit ==
  /\ state = [s \in Sessions |-> createInitialState(s)]
  /\ storage = [s \in Sessions |-> NoEntry]
  /\ connected = [s \in Sessions |-> "unset"]
  /\ socks = [s \in Sessions |-> <<>>]
  /\ ws = [s \in Sessions |-> 0]
  /\ reconnectTimer = [s \in Sessions |-> "null"]
  /\ connectCalled = [s \in Sessions |-> FALSE]
  /\ left = [s \in Sessions |-> FALSE]
  /\ ops = [s \in Sessions |-> 0]
  /\ toRelay = [s \in Sessions |-> <<>>]
  /\ toClient = [s \in Sessions |-> <<>>]
  /\ relay = createInitialState(RelayId)
  /\ now = 0
  /\ start = createInitialState(RelayId)
  /\ applied = <<>>
  /\ held = [s \in Sessions |-> NoSnapshot]
  /\ thrown = [s \in Sessions |-> FALSE]

Init ==
  /\ SyncInit
  /\ hook = HookStart(FALSE)
  /\ geo = GeoStart

Next ==
  \/ \E s \in Sessions : Join(s)
  \/ \E s \in Sessions, loc \in GpsLocations : UpdateLocation(s, loc)
  \/ \E s \in Sessions : ClearLocation(s)
  \/ \E s \in Sessions, st \in Statuses : UpdateStatus(s, st)
  \/ \E s \in Sessions, indoor \in 1..NumIndoor : UpdateIndoorPosition(s, indoor)
  \/ \E s \in Sessions, w \in WaypointIds : AddWaypoint(s, w)
  \/ \E s \in Sessions, w \in WaypointIds : RemoveWaypoint(s, w)
  \/ \E s \in Sessions : Leave(s)
  \/ \E s \in Sessions, ok \in BOOLEAN : Connect(s, ok)
  \/ \E s \in Sessions : ConnectLocalOnly(s)
  \/ \E s \in Sessions, i \in 1..MaxSockets : OnOpen(s, i)
  \/ \E s \in Sessions, i \in 1..MaxSockets : OnClose(s, i)
  \/ \E s \in Sessions, ok \in BOOLEAN : ReconnectTimerFires(s, ok)
  \/ \E s \in Sessions : OnMessage(s)
  \/ \E s \in Sessions : RelayReceive(s)
  \/ Tick

Spec == Init /\ [][Next]_vars

(* ------------------- the merge engine on its own ---------------------- *)
\* Room states a session can hold when a frame arrives: every registry over
\* the room's participants, every duplicate-free waypoint list.
MergeEntries(p) == {Participant(p, st, 0, loc) : st \in Statuses, loc \in {Absent} \cup GpsLocations}

MergeRegistries ==
  UNION {[D -> UNION {MergeEntries(p) : p \in D}] : D \in SUBSET Sessions}

WellKeyed(parts) == \A p \in DOMAIN parts : parts[p].id = p

MergeWaypointLists ==
  {<<>>} \cup {<<Waypoint(w, 2)>> : w \in WaypointIds}
         \cup {<<Waypoint(v, 2), Waypoint(w, 2)>> : v, w \in WaypointIds}

Distinct(wps) == \A i, j \in DOMAIN wps : wps[i].id = wps[j].id => i = j

MergeStates ==
  {RoomState(1, parts, wps) :
     parts \in {r \in MergeRegistries : WellKeyed(r)},
     wps \in {l \in MergeWaypointLists : Distinct(l)}}

\* full_state answers of the relay: with and without the receiving session
FullStates ==
  {RoomState(RelayId, parts, wps) :
     parts \in {<<>>,
                [p \in {2} |-> Participant(2, "online", 0, Absent)],
                [p \in {1, 2} |-> Participant(p, "away", 0, Loc(1, 1))]},
     wps \in {<<>>, <<Waypoint(1, 2)>>}}

ChangeMessages ==
  {JoinMsg(Participant(p, "online", 0, Absent)) : p \in Sessions}
    \cup {LeaveMsg(p) : p \in Sessions}
    \cup {LocationMsg(p, loc) : p \in Sessions, loc \in {Null} \cup GpsLocations}
    \cup {StatusMsg(p, st) : p \in Sessions, st \in Statuses}
    \cup {WaypointAddMsg(Waypoint(w, 2)) : w \in WaypointIds}
    \cup {WaypointRemoveMsg(w) : w \in WaypointIds}

MergeMessages == ChangeMessages \cup {FullStateMsg(st) : st \in FullStates}

\* ws.onmessage of session 1 with frame m: handleMessage, then
\* notifyStateChange; the frame is recorded in the log.
Deliver(m) ==
  /\ Len(applied) < MaxLog
  /\ LET st == HandleMessage(state[1], 1, m, now)
     IN /\ state' = [state EXCEPT ![1] = st]
        /\ storage' = saveState(1, st)
        /\ held' = [held EXCEPT ![1] = Through(@, 1, state[1], st, m)]
  /\ applied' = Append(applied, m)
  /\ UNCHANGED <<netVars, ops, now, start, thrown, hook, geo>>

MergeInit ==
  /\ start \in MergeStates
  /\ state = [s \in Sessions |-> IF s = 1 THEN start ELSE createInitialState(s)]
  /\ storage = [s \in Sessions |-> NoEntry]
  /\ connected = [s \in Sessions |-> "unset"]
  /\ socks = [s \in Sessions |-> <<>>]
  /\ ws = [s \in Sessions |-> 0]
  /\ reconnectTimer = [s \in Sessions |-> "null"]
  /\ connectCalled = [s \in Sessions |-> FALSE]
  /\ left = [s \in Sessions |-> FALSE]
  /\ ops = [s \in Sessions |-> 0]
  /\ toRelay = [s \in Sessions |-> <<>>]
  /\ toClient = [s \in Sessions |-> <<>>]
  /\ relay = createInitialState(RelayId)
  /\ now = 0
  /\ applied = <<>>
  /\ held = [s \in Sessions |-> NoSnapshot]
  /\ thrown = [s \in Sessions |-> FALSE]
  /\ hook = HookStart(FALSE)
  /\ geo = GeoStart

MergeNext ==
  \/ \E m \in MergeMessages : Deliver(m)
  \/ Tick

SpecMerge == MergeInit /\ [][MergeNext]_vars

(* ------------------------ views used by the claims -------------------- *)
\* a cleared location (JSON null) and a missing one both show no location
Visible(loc) == IF loc.kind = "loc" THEN loc ELSE Absent

\* what a participant entry shows: everything but the receiver's lastSeen stamp
Shown(part) == [id |-> part.id, status |-> part.status, location |-> Visible(part.location)]

\* the registry (ids, and per id status and location)
Registry(st) == [p \in DOMAIN st.participants |-> Shown(st.participants[p])]

\* the waypoints as a set
WaypointSet(st) == {st.waypoints[i] : i \in DOMAIN st.waypoints}

WaypointIdsOf(st) == {st.waypoints[i].id : i \in DOMAIN st.waypoints}

\* the state of session 1 after the frames a, b have been handled in that order
After2(a, b) == HandleMessage(HandleMessage(start, 1, a, now), 1, b, now)

ParticipantKeyed(m) == m.type \in {"join", "leave", "location", "status"}

KeyOf(m) == IF m.type = "join" THEN m.participant.id ELSE m.participantId

\* two changes no single sender has ordered: changes keyed by the same
\* participant come from that participant's session, in send order
Independent(a, b) ==
  /\ a \in ChangeMessages
  /\ b \in ChangeMessages
  /\ ~(ParticipantKeyed(a) /\ ParticipantKeyed(b) /\ KeyOf(a) = KeyOf(b))

(* ------------------------------- claims ------------------------------- *)
\* C2: merge is commutative. For every state S and independent changes A, B,
\* handling A then B leaves the same registry and the same waypoint set as
\* handling B then A.
C2_MergeCommutes ==
  (Len(applied) = 2 /\ Independent(applied[1], applied[2])) =>
     /\ Registry(state[1]) = Registry(After2(applied[2], applied[1]))
     /\ WaypointSet(state[1]) = WaypointSet(After2(applied[2], applied[1]))

\* C3: merge is idempotent. Handling a change message a second time leaves
\* the registry and the waypoint list as they were after the first time.
C3_MergeIdempotent ==
  (Len(applied) = 2 /\ applied[1] = applied[2] /\ applied[1] \in ChangeMessages) =>
     LET once == HandleMessage(start, 1, applied[1], now)
     IN /\ Registry(state[1]) = Registry(once)
        /\ state[1].waypoints = once.waypoints

\* C4: last-writer-wins on location. After two location messages for the
\* same registered participant with timestamps t1 < t2 have been handled, in
\* either order, the participant's location is the t2 value.
C4_LocationLastWriterWins ==
  \A i, j \in {1, 2} :
    (/\ Len(applied) = 2
     /\ i # j
     /\ applied[i].type = "location" /\ applied[j].type = "location"
     /\ applied[i].participantId = applied[j].participantId
     /\ applied[i].participantId \in DOMAIN start.participants
     /\ applied[i].location.kind = "loc" /\ applied[j].location.kind = "loc"
     /\ applied[i].location.timestamp < applied[j].location.timestamp)
    => state[1].participants[applied[j].participantId].location = applied[j].location

\* C5: waypoint removal wins. After waypoint_add{X} and waypoint_remove{X}
\* have both been handled, in either order, and after a full_state holding X
\* followed by waypoint_remove{X}, no waypoint with id X is in the list.
C5_RemovalWins ==
  \A x \in WaypointIds :
    (/\ Len(applied) = 2
     /\ \/ {applied[1], applied[2]} = {WaypointAddMsg(Waypoint(x, 2)), WaypointRemoveMsg(x)}
        \/ /\ applied[1].type = "full_state"
           /\ x \in WaypointIdsOf(applied[1].state)
           /\ applied[2] = WaypointRemoveMsg(x))
    => x \notin WaypointIdsOf(state[1])

\* C8: a client never merges itself out. When a full_state is handled by a
\* session whose own participant is in its registry, the participant is in
\* the registry afterwards with exactly the field values it had before.
C8_SelfKept ==
  [][(/\ Len(applied') = Len(applied) + 1
      /\ applied'[Len(applied')].type = "full_state"
      /\ 1 \in DOMAIN state[1].participants)
     => (/\ 1 \in DOMAIN state'[1].participants
         /\ state'[1].participants[1] = state[1].participants[1])]_vars

\* C8 witness: a full_state that does not hold the session's participant, or
\* holds other values for it, has been handled and the participant is there
\* with its own values.
C8_Witness ==
  /\ Len(applied) = 1
  /\ applied[1].type = "full_state"
  /\ 1 \in DOMAIN start.participants
  /\ 1 \in DOMAIN applied[1].state.participants
  /\ applied[1].state.participants[1] # start.participants[1]
  /\ 1 \in DOMAIN state[1].participants
  /\ state[1].participants[1] = start.participants[1]

(* ------------------------- joining a full room ------------------------ *)
\* the participants that try to join the room: one more than it may hold
Joiners == 1..(maxParticipants + 1)

\* ws.onmessage of session 1 with the join frame of participant p
DeliverJoin(p) ==
  /\ LET m == JoinMsg(Participant(p, "online", 0, Absent))
         st == HandleMessage(state[1], 1, m, now)
     IN /\ state' = [state EXCEPT ![1] = st]
        /\ storage' = saveState(1, st)
        /\ held' = [held EXCEPT ![1] = Through(@, 1, state[1], st, m)]
  /\ UNCHANGED <<netVars, ops, now, mergeVars, thrown, hook, geo>>

CapNext ==
  \/ \E p \in Joiners : DeliverJoin(p)
  \/ \E s \in Sessions : Join(s)

SpecCap == Init /\ [][CapNext]_vars

\* no frame is in flight in either direction
Quiescent == \A s \in Sessions : toRelay[s] = <<>> /\ toClient[s] = <<>>

\* C1: convergence. Once every sent frame has been delivered, all sessions
\* with an open connection hold the same registry (ids, status, location)
\* and the same waypoint set.
C1_Convergence ==
  Quiescent =>
    \A s, t \in Sessions :
      (Active(s) /\ Active(t)) =>
        /\ Registry(state[s]) = Registry(state[t])
        /\ WaypointSet(state[s]) = WaypointSet(state[t])

\* C6: no lost updates across a disconnect. Once a session that the relay
\* knows is connected again and nothing is in flight, the relay's entry for
\* the session shows the status and location the session set locally,
\* also those it set while its socket was not open.
C6_NoLostUpdates ==
  \A s \in Sessions :
    (/\ Active(s)
     /\ Quiescent
     /\ Registered(s)
     /\ s \in DOMAIN relay.participants)
    => Shown(relay.participants[s]) = Shown(state[s].participants[s])

\* the frames of session s in flight to the relay
InFlight(s) == {toRelay[s][i] : i \in DOMAIN toRelay[s]}

\* C7: handling a full_state never discards a local edit the relay has not
\* seen yet: a waypoint whose waypoint_add is still in flight stays in the
\* list, a waypoint whose waypoint_remove is still in flight stays out, and
\* the session's own entry keeps its location and status.
C7_FullStateKeepsLocalEdits ==
  [][\A s \in Sessions :
       (OnMessage(s) /\ Head(toClient[s]).type = "full_state") =>
         /\ \A m \in InFlight(s) :
              (m.type = "waypoint_add" /\ m.waypoint.id \in WaypointIdsOf(state[s]))
                => m.waypoint.id \in WaypointIdsOf(state'[s])
         /\ \A m \in InFlight(s) :
              (m.type = "waypoint_remove" /\ m.waypointId \notin WaypointIdsOf(state[s]))
                => m.waypointId \notin WaypointIdsOf(state'[s])
         /\ Registered(s) =>
              /\ s \in DOMAIN state'[s].participants
              /\ Shown(state'[s].participants[s]) = Shown(state[s].participants[s])]_vars

\* C9: capacity. The registry of a session never holds more than
\* maxParticipants entries.
C9_Capacity ==
  \A s \in Sessions : Cardinality(DOMAIN state[s].participants) <= maxParticipants

\* C10: leave() is terminal. After leave() no reconnect timer is pending and
\* the session has no socket that is connecting or open.
C10_LeaveTerminal ==
  \A s \in Sessions :
    left[s] =>
      /\ reconnectTimer[s] # "pending"
      /\ \A i \in DOMAIN socks[s] : socks[s][i] \notin {"connecting", "open"}

\* C11: leave() is idempotent. A second call changes neither the state, the
\* persisted cache, the sockets nor the timer, and sends no frame.
C11_LeaveIdempotent ==
  [][\A s \in Sessions :
       (left[s] /\ Leave(s)) =>
         UNCHANGED <<state, storage, socks, ws, reconnectTimer, toRelay, toClient, connected>>]_vars

\* the session was connected with a sync URL
UrlMode(s) == connectCalled[s] /\ (socks[s] # <<>> \/ connected[s] = "false")

\* the session has a socket that is connecting or open
Live(s) == \E i \in DOMAIN socks[s] : socks[s][i] \in {"connecting", "open"}

C13_HandshakeOrder ==
  [][\A s \in Sessions, i \in 1..MaxSockets :
       (OnOpen(s, i) /\ Registered(s)) =>
         toRelay'[s] = toRelay[s] \o <<RequestStateMsg, JoinMsg(state[s].participants[s])>>]_vars

\* C14: catch-up on reconnect. A session that is connected and has nothing in
\* flight in either direction sees, for every other participant the relay
\* knows, the status and location the relay holds, not an older value.
C14_CatchUp ==
  \A s \in Sessions :
    (Active(s) /\ toRelay[s] = <<>> /\ toClient[s] = <<>>) =>
      \A p \in (DOMAIN relay.participants) \ {s} :
        /\ p \in DOMAIN state[s].participants
        /\ Shown(state[s].participants[p]) = Shown(relay.participants[p])

\* C14 witness: session 2 is on its second connection, caught up, and sees
\* the location participant 1 published.
C14_Witness ==
  /\ Len(socks[2]) = 2
  /\ socks[2][2] = "open"
  /\ toRelay[2] = <<>> /\ toClient[2] = <<>>
  /\ 1 \in DOMAIN relay.participants
  /\ relay.participants[1].location.kind = "loc"
  /\ 1 \in DOMAIN state[2].participants
  /\ state[2].participants[1].location = relay.participants[1].location

\* C16: no resurrection. Once a leave for participant P has been handled, P
\* is not in the registry, whatever is handled afterwards.
C16_NoResurrection ==
  \A i \in DOMAIN applied :
    applied[i].type = "leave" => applied[i].participantId \notin DOMAIN state[1].participants

(* ----------------- one session and its application -------------------- *)
\* Session 1 was constructed over a cache entry that held `start`; its socket
\* was never created, or is connecting, open, or closed with the reconnect
\* pending.
LocalInit ==
  /\ start \in MergeStates
  /\ state = [s \in Sessions |-> IF s = 1 THEN start ELSE createInitialState(s)]
  /\ storage = [s \in Sessions |-> IF s = 1 THEN Stored(start) ELSE NoEntry]
  /\ socks \in {[s \in Sessions |-> IF s = 1 THEN sk ELSE <<>>] :
                  sk \in {<<>>, <<"connecting">>, <<"open">>, <<"closed">>}}
  /\ ws = [s \in Sessions |-> Len(socks[s])]
  /\ connected = [s \in Sessions |->
                    CASE socks[s] = <<"open">> -> "true"
                      [] socks[s] = <<"closed">> -> "false"
                      [] OTHER -> "unset"]
  /\ connectCalled = [s \in Sessions |-> socks[s] # <<>>]
  /\ reconnectTimer = [s \in Sessions |-> IF socks[s] = <<"closed">> THEN "pending" ELSE "null"]
  /\ left = [s \in Sessions |-> FALSE]
  /\ ops = [s \in Sessions |-> 0]
  /\ toRelay = [s \in Sessions |-> <<>>]
  /\ toClient = [s \in Sessions |-> <<>>]
  /\ relay = createInitialState(RelayId)
  /\ now = 0
  /\ applied = <<>>
  /\ held = [s \in Sessions |-> NoSnapshot]
  /\ thrown = [s \in Sessions |-> FALSE]
  /\ hook = HookStart(FALSE)
  /\ geo = GeoStart

\* the public methods of session 1, called by its application
LocalNext ==
  \/ \E p \in Sessions : JoinAs(1, Participant(p, "online", now, Absent))
  \/ \E loc \in GpsLocations : UpdateLocation(1, loc)
  \/ ClearLocation(1)
  \/ \E st \in Statuses : UpdateStatus(1, st)
  \/ \E indoor \in 1..NumIndoor : UpdateIndoorPosition(1, indoor)
  \/ \E w \in WaypointIds : AddWaypoint(1, w)
  \/ \E w \in WaypointIds : RemoveWaypoint(1, w)
  \/ Leave(1)
  \/ GetState(1)
  \/ Tick

SpecLocal == LocalInit /\ [][LocalNext]_vars

\* the participant id a frame names, 0 for frames that name none
Names(m) ==
  CASE m.type = "join" -> m.participant.id
    [] m.type \in {"leave", "location", "status"} -> m.participantId
    [] OTHER -> 0

\* C15: ownership. A public method of session 1 creates, changes or deletes
\* no registry entry other than the one keyed by participant id 1, and every
\* frame it sends that names a participant names participant 1.
C15_Ownership ==
  [][/\ \A p \in Sessions \ {1} :
          /\ (p \in DOMAIN state'[1].participants) = (p \in DOMAIN state[1].participants)
          /\ p \in DOMAIN state[1].participants =>
               state'[1].participants[p] = state[1].participants[p]
     /\ \A i \in DOMAIN toRelay'[1] :
          i > Len(toRelay[1]) => Names(toRelay'[1][i]) \in {0, 1}]_vars

\* C17: location is replaced wholesale. After updateIndoorPosition the stored
\* location holds nothing of the location stored before: it is the location
\* the method builds when there was none.
C17_ReplacedWholesale ==
  [][\A indoor \in 1..NumIndoor :
       (UpdateIndoorPosition(1, indoor) /\ Registered(1)) =>
         state'[1].participants[1].location = IndoorLocation(Absent, indoor, now)]_vars

\* C18: copy-on-write snapshots. What the application sees through a
\* snapshot it holds is what the snapshot showed when it was handed out.
C18_SnapshotsFrozen ==
  \A s \in Sessions : held[s].taken => held[s].snap = held[s].first

\* C19: the durable cache tracks the merged state. No step reads the cache
\* after construction, and once a public method has completed or a frame has
\* been handled, the entry under the slug is the session's in-memory state;
\* before that nothing is stored and the state is the one constructed.
C19_CacheTracksState ==
  \A s \in Sessions :
    IF storage[s].present THEN storage[s].value = state[s]
    ELSE state[s] = createInitialState(s)

\* C19 witness: session 2 has made a call of its own and has handled frames
\* that brought participant 1 into its registry, and its cache entry is its
\* state.
C19_Witness ==
  /\ ops[2] > 0
  /\ 1 \in DOMAIN state[2].participants
  /\ storage[2] = Stored(state[2])

(* --------------------- construction over the cache -------------------- *)
\* the Automerge URL findOrCreateRoom stores under the same key: not JSON
UrlEntry == [present |-> TRUE, text |-> "automerge:url"]

\* the JSON text null
NullEntry == [present |-> TRUE, text |-> "null"]

CacheEntries ==
  {NoEntry, UrlEntry, NullEntry, Stored(NotARoom)} \cup {Stored(st) : st \in MergeStates}

\* RoomSync.loadState: JSON.parse of the entry, null when there is none or
\* when parsing throws; the parsed value is returned as it is
loadState(e) ==
  IF ~e.present THEN [null |-> TRUE, value |-> NotARoom]
  ELSE IF "text" \in DOMAIN e THEN [null |-> TRUE, value |-> NotARoom]
  ELSE [null |-> FALSE, value |-> e.value]

\* RoomSync constructor: this.state = this.loadState() || this.createInitialState()
Constructed(s, e) ==
  LET l == loadState(e) IN IF l.null THEN createInitialState(s) ELSE l.value

\* session 1 is constructed over any cache entry
CacheInit ==
  /\ storage \in [Sessions -> CacheEntries]
  /\ storage[2] = NoEntry
  /\ state = [s \in Sessions |-> Constructed(s, storage[s])]
  /\ start = state[1]
  /\ connected = [s \in Sessions |-> "unset"]
  /\ socks = [s \in Sessions |-> <<>>]
  /\ ws = [s \in Sessions |-> 0]
  /\ reconnectTimer = [s \in Sessions |-> "null"]
  /\ connectCalled = [s \in Sessions |-> FALSE]
  /\ left = [s \in Sessions |-> FALSE]
  /\ ops = [s \in Sessions |-> 0]
  /\ toRelay = [s \in Sessions |-> <<>>]
  /\ toClient = [s \in Sessions |-> <<>>]
  /\ relay = createInitialState(RelayId)
  /\ now = 0
  /\ applied = <<>>
  /\ held = [s \in Sessions |-> NoSnapshot]
  /\ thrown = [s \in Sessions |-> FALSE]
  /\ hook = HookStart(FALSE)
  /\ geo = GeoStart

\* join, leave, updateLocation, clearLocation, updateStatus,
\* updateIndoorPosition, addWaypoint or removeWaypoint on a state without
\* participants and waypoints: the first statement reads a property of
\* undefined and the TypeError reaches the caller
CallThrows(s) ==
  /\ ~IsRoom(state[s])
  /\ Calls < MaxOps
  /\ thrown' = [thrown EXCEPT ![s] = TRUE]
  /\ ops' = [ops EXCEPT ![s] = @ + 1]
  /\ UNCHANGED <<state, storage, now, mergeVars, held, netVars, hook, geo>>

CacheNext ==
  \/ Join(1)
  \/ \E loc \in GpsLocations : UpdateLocation(1, loc)
  \/ \E st \in Statuses : UpdateStatus(1, st)
  \/ \E w \in WaypointIds : AddWaypoint(1, w)
  \/ Leave(1)
  \/ CallThrows(1)
  \/ Tick

SpecCache == CacheInit /\ [][CacheNext]_vars

\* C20: cache failures are absorbed. Whatever the cache held when the
\* session was constructed, no later join or mutation raises an error.
C20_CacheFailuresAbsorbed == \A s \in Sessions : ~thrown[s]

(* ------------------------- frames on the wire ------------------------- *)
\* event.data that is not JSON
Unparsable == [type |-> "#text"]

\* a frame with a type tag the switch has no case for
UnknownType == [type |-> "ping"]

\* {type: 'full_state'} without state, {type: 'join'} without participant
FullStateNoState == [type |-> "full_state"]
JoinNoParticipant == [type |-> "join"]

MalformedFrames == {Unparsable, UnknownType, FullStateNoState, JoinNoParticipant}

\* handleMessage(f) throws inside the try of ws.onmessage: JSON.parse fails,
\* or a property of undefined is read (message.participant.id; any case but
\* the waypoint ones and unknown tags on a state without participants; the
\* waypoint cases on a state without waypoints; putting the own participant
\* back into an undefined message.state)
Throws(st, self, f) ==
  \/ f = Unparsable
  \/ f = JoinNoParticipant
  \/ f = FullStateNoState /\ IsRoom(st) /\ self \in DOMAIN st.participants
  \/ ~IsRoom(st) /\ f # UnknownType

\* this.state after ws.onmessage has run for frame f. case 'full_state'
\* assigns message.state to this.state before anything can throw, so a frame
\* without state leaves this.state undefined.
Received(st, self, f, t) ==
  IF f = FullStateNoState /\ IsRoom(st) THEN NotARoom
  ELSE IF Throws(st, self, f) \/ f = UnknownType THEN st
  ELSE HandleMessage(st, self, f, t)

\* ws.onmessage of session 1 with frame f; notifyStateChange runs unless
\* handleMessage threw
OnFrame(f) ==
  /\ Len(applied) < MaxLog
  /\ LET st == Received(state[1], 1, f, now)
     IN /\ state' = [state EXCEPT ![1] = st]
        /\ storage' = IF Throws(state[1], 1, f) THEN storage ELSE saveState(1, st)
        /\ held' = IF f \in MalformedFrames \/ ~IsRoom(state[1]) THEN held
                   ELSE [held EXCEPT ![1] = Through(@, 1, state[1], st, f)]
  /\ applied' = Append(applied, f)
  /\ UNCHANGED <<netVars, ops, now, start, thrown, hook, geo>>

FrameNext ==
  \/ \E f \in MergeMessages \cup MalformedFrames : OnFrame(f)
  \/ Join(1)
  \/ CallThrows(1)
  \/ Tick

SpecFrames == MergeInit /\ [][FrameNext]_vars

\* C21: a malformed or unrecognized frame is dropped. Handling it leaves the
\* session's state as it was, and no call made on the session afterwards
\* throws.
C21_MalformedDropped ==
  [][/\ \A f \in MalformedFrames : OnFrame(f) => state'[1] = state[1]
     /\ ~thrown'[1]]_vars

(* --------------------------- stop sharing ----------------------------- *)
\* session 1 shares and stops sharing, and handles the location frames of
\* the participants
StopNext ==
  \/ \E loc \in GpsLocations : UpdateLocation(1, loc)
  \/ ClearLocation(1)
  \/ \E p \in Sessions, loc \in {Null} \cup GpsLocations : Deliver(LocationMsg(p, loc))
  \/ Tick

SpecStop == LocalInit /\ [][StopNext]_vars

IdsIn(wps) == {wps[i].id : i \in DOMAIN wps}

\* C24: optimistic local apply. join, addWaypoint and removeWaypoint, and
\* updateLocation, clearLocation and updateStatus on a session whose own
\* participant is registered, take effect on the local state and the state
\* is saved and published before the method returns, whatever the socket's
\* state.
C24_OptimisticApply ==
  [][/\ JoinAs(1, Participant(1, "online", now, Absent)) =>
          /\ 1 \in DOMAIN state'[1].participants
          /\ state'[1].participants[1] = Participant(1, "online", now, Absent)
     /\ \A loc \in GpsLocations :
          (UpdateLocation(1, loc) /\ Registered(1)) => state'[1].participants[1].location = loc
     /\ (ClearLocation(1) /\ Registered(1)) => state'[1].participants[1].location.kind # "loc"
     /\ \A st \in Statuses :
          (UpdateStatus(1, st) /\ Registered(1)) => state'[1].participants[1].status = st
     /\ \A w \in WaypointIds :
          /\ AddWaypoint(1, w) => w \in IdsIn(state'[1].waypoints)
          /\ RemoveWaypoint(1, w) => w \notin IdsIn(state'[1].waypoints)
     /\ (ops'[1] # ops[1] /\ ~left'[1] /\ (Registered(1) \/ state'[1] # state[1])) =>
          storage'[1] = Stored(state'[1])]_vars

\* C24 witness: the socket of session 1 is closed, and the location the
\* session set afterwards is in its state and in its cache.
C24_Witness ==
  /\ socks[1] = <<"closed">>
  /\ ops[1] > 0
  /\ 1 \in DOMAIN state[1].participants
  /\ state[1].participants[1].location.kind = "loc"
  /\ state[1].participants[1].lastSeen = 1
  /\ storage[1] = Stored(state[1])

\* C26: the waypoint collection is a set keyed by id. No session's waypoint
\* list holds two entries with the same id.
C26_WaypointsKeyed == \A s \in Sessions : Distinct(state[s].waypoints)

(* ------------------------- connection handling ----------------------- *)
\* the application calls connect(syncUrl) on a session it has connected
\* before: connect assigns a new socket to this.ws without looking at the one
\* it holds, which stays as it is with its handlers attached
ConnectAgain(s, ok) ==
  /\ connectCalled[s]
  /\ socks[s] # <<>>
  /\ ~left[s]
  /\ Sockets < MaxSockets
  /\ DoConnect(s, ok)
  /\ UNCHANGED <<connectCalled, reconnectTimer, left, toRelay, toClient, relay, appVars>>

ConnectNext ==
  \/ \E s \in Sessions, ok \in BOOLEAN : Connect(s, ok)
  \/ \E s \in Sessions, ok \in BOOLEAN : ConnectAgain(s, ok)
  \/ \E s \in Sessions, i \in 1..MaxSockets : OnOpen(s, i)
  \/ \E s \in Sessions, i \in 1..MaxSockets : OnClose(s, i)
  \/ \E s \in Sessions, ok \in BOOLEAN : ReconnectTimerFires(s, ok)
  \/ \E s \in Sessions : Leave(s)
  \/ \E s \in Sessions : RelayReceive(s)
  \/ \E s \in Sessions : OnMessage(s)

SpecConnect == Init /\ [][ConnectNext]_vars

\* number of sockets of the session that are connecting or open
LiveCount(s) == Cardinality({i \in DOMAIN socks[s] : socks[s][i] \in {"connecting", "open"}})

\* C27: a session has at most one socket that is connecting or open, and a
\* new socket is created only when every earlier one is closed.
C27_OneSocket ==
  [][\A s \in Sessions :
       /\ LiveCount(s) <= 1
       /\ Len(socks'[s]) > Len(socks[s]) =>
            \A i \in DOMAIN socks[s] : socks[s][i] = "closed"]_vars

(* --------------------- updates without an entry ----------------------- *)
UnregMessages ==
  {LocationMsg(p, loc) : p \in Sessions, loc \in {Null} \cup GpsLocations}
    \cup {StatusMsg(p, st) : p \in Sessions, st \in Statuses}
    \cup {LeaveMsg(p) : p \in Sessions}

\* the update methods of session 1 and the frames that update an entry
UnregNext ==
  \/ \E loc \in GpsLocations : UpdateLocation(1, loc)
  \/ ClearLocation(1)
  \/ \E st \in Statuses : UpdateStatus(1, st)
  \/ \E indoor \in 1..NumIndoor : UpdateIndoorPosition(1, indoor)
  \/ \E m \in UnregMessages : Deliver(m)

\* session 1 is connected and its room has no waypoints
UnregInit == LocalInit /\ socks[1] = <<"open">> /\ start.waypoints = <<>>

SpecUnreg == UnregInit /\ [][UnregNext]_vars

\* the call changed no state, stored nothing and sent nothing
NoEffect == UNCHANGED <<state, storage, toRelay, held>>

\* C28: updates for an unregistered participant are no-ops. The update
\* methods called while the own participant is not in the registry change
\* nothing, store nothing and send nothing; a location or status frame for
\* an id that is not in the registry leaves the registry as it was.
C28_UnregisteredNoOp ==
  [][/\ ~Registered(1) =>
          /\ \A loc \in GpsLocations : UpdateLocation(1, loc) => NoEffect
          /\ ClearLocation(1) => NoEffect
          /\ \A st \in Statuses : UpdateStatus(1, st) => NoEffect
          /\ \A indoor \in 1..NumIndoor : UpdateIndoorPosition(1, indoor) => NoEffect
     /\ \A m \in UnregMessages :
          (m.type # "leave" /\ m.participantId \notin DOMAIN state[1].participants /\ Deliver(m))
            => state'[1].participants = state[1].participants]_vars

\* C28 witness: session 1, connected and without an entry for itself or for
\* participant 2, has made an update call and handled a location frame for
\* participant 2; its state is the one it started with and nothing was sent.
C28_Witness ==
  /\ socks[1] = <<"open">>
  /\ DOMAIN start.participants = {}
  /\ ops[1] = 1
  /\ applied = <<LocationMsg(2, Loc(1, 1))>>
  /\ state[1] = start
  /\ toRelay[1] = <<>>

(* ------------------------------ useRoom ------------------------------- *)
MaxRuns == 3

\* every variable of the RoomSync sessions
syncVars == <<state, storage, connected, socks, ws, reconnectTimer, connectCalled, left,
              ops, toRelay, toClient, relay, now, start, applied, held, thrown>>

\* the participant ids document d holds
InDoc(h, d) == {p \in DOMAIN h.entries : h.entries[p].doc = d}

\* updateParticipantStatus(handle, id, 'offline') as the effect cleanup calls
\* it: only with both refs set, and only on an entry the document has
Offline(h) ==
  IF h.handleRef # 0 /\ h.pidRef \in InDoc(h, h.handleRef)
  THEN [h EXCEPT !.entries[h.pidRef].status = "offline"]
  ELSE h

\* the cleanup of the latest effect run: mounted = false, then the status update
Cleanup(h) ==
  IF h.runs = <<>> THEN h
  ELSE Offline([h EXCEPT !.runs[Len(h.runs)].mounted = FALSE])

\* createRoom for participant id: a new document holding the creator's
\* entry with status 'online'; findOrCreateRoom then stores its URL
CreateRoom(h, id) ==
  [h EXCEPT !.nDocs = @ + 1,
            !.entries = Put(@, id, [doc |-> h.nDocs + 1, status |-> "online"]),
            !.storedUrl = TRUE]

\* init() of run i after `await findOrCreateRoom` returned the handle of
\* document d: nothing if the run was cleaned up meanwhile, else handleRef
\* is set and the participant is added unless the document has it
Resume(h, i, d) ==
  LET done == [h EXCEPT !.runs[i].awaiting = FALSE]
      id == h.runs[i].id
  IN IF ~h.runs[i].mounted THEN done
     ELSE [done EXCEPT !.handleRef = d,
                       !.entries = IF id \in InDoc(h, d) THEN @
                                   ELSE Put(@, id, [doc |-> d, status |-> "online"])]

\* The init effect runs: on mount, or again when slug, userName or
\* userEmoji changes (the page renders useRoom before the user is loaded).
\* The cleanup of the previous run comes first. init() draws a new id with
\* nanoid(), stores it in participantIdRef and calls findOrCreateRoom, which
\* without a stored URL creates the room at once.
EffectRun ==
  /\ ~hook.unmounted
  /\ Len(hook.runs) < MaxRuns
  /\ LET c == Cleanup(hook)
         id == c.nextId
         i == Len(c.runs) + 1
         begun == [c EXCEPT !.nextId = id + 1, !.pidRef = id,
                            !.runs = Append(@, [id |-> id, mounted |-> TRUE, awaiting |-> TRUE])]
     IN hook' = IF c.storedUrl THEN begun
                ELSE Resume(CreateRoom(begun, id), i, c.nDocs + 1)
  /\ UNCHANGED <<syncVars, geo>>

\* handle.whenReady() of run i settles: the stored document is there, or it
\* is not (docSync gives nothing, or find throws) and findOrCreateRoom
\* creates a new room; then init() resumes
FindSettles(i, found) ==
  /\ i \in DOMAIN hook.runs
  /\ hook.runs[i].awaiting
  /\ hook' = IF found /\ hook.nDocs > 0
             THEN Resume(hook, i, hook.nDocs)
             ELSE Resume(CreateRoom(hook, hook.runs[i].id), i, hook.nDocs + 1)
  /\ UNCHANGED <<syncVars, geo>>

\* the leave callback of useRoom
HookLeave ==
  /\ ~hook.unmounted
  /\ hook.handleRef # 0 /\ hook.pidRef # 0
  /\ hook' = [hook EXCEPT !.entries = IF hook.pidRef \in InDoc(hook, hook.handleRef)
                                      THEN Del(@, hook.pidRef) ELSE @,
                          !.handleRef = 0, !.pidRef = 0]
  /\ UNCHANGED <<syncVars, geo>>

\* the component unmounts: the cleanup of the latest run
Unmount ==
  /\ ~hook.unmounted
  /\ hook.runs # <<>>
  /\ hook' = [Cleanup(hook) EXCEPT !.unmounted = TRUE]
  /\ UNCHANGED <<syncVars, geo>>

HookInit ==
  /\ SyncInit
  /\ hook \in {HookStart(stored) : stored \in BOOLEAN}
  /\ geo = GeoStart

HookNext ==
  \/ EffectRun
  \/ \E i \in 1..MaxRuns, found \in BOOLEAN : FindSettles(i, found)
  \/ HookLeave
  \/ Unmount

SpecHook == HookInit /\ [][HookNext]_vars

\* C23: stable participant identity. One mounted page draws a single
\* participant id and has at most one entry in any room document.
C23_StableIdentity ==
  /\ hook.nextId <= 2
  /\ \A d \in 1..hook.nDocs : Cardinality(InDoc(hook, d)) <= 1

\* C30: no ghost participant after unmount. Once the component has
\* unmounted and no findOrCreateRoom call is pending, every entry the
\* instance put into a room document is removed or has status 'offline'.
C30_NoGhost ==
  (hook.unmounted /\ \A i \in DOMAIN hook.runs : ~hook.runs[i].awaiting) =>
    \A p \in DOMAIN hook.entries : hook.entries[p].status = "offline"

(* -------------------------- useLocationSharing ------------------------ *)
MaxRequests == 1
MaxFixes == 2
Latitudes == 1..MaxStamp

\* handlePosition with a fix at latitude lat: currentLocation and error are
\* set and onLocationUpdate is invoked; the page's handleLocationUpdate
\* passes the location to updateLocation when isConnectedRef.current (conn)
HandlePosition(g, lat, conn) ==
  [g EXCEPT !.current = lat, !.error = FALSE, !.calls = @ + 1,
            !.late = @ \/ g.stopped,
            !.room = IF conn THEN lat ELSE @]

\* handleError that treats the failed observation as a fix at latitude 0
HandleError_Merges(g) == HandlePosition(g, 0, TRUE)

\* handleError: only the error state is set
HandleError(g) == [g EXCEPT !.error = TRUE]

\* startSharing(): nothing if a watch exists, else watchPosition and
\* setIsSharing(true)
StartSharing ==
  /\ geo' = [geo EXCEPT !.watch = TRUE,
                        !.isSharing = IF geo.watch THEN @ ELSE TRUE,
                        !.stopped = FALSE]
  /\ UNCHANGED <<syncVars, hook>>

\* stopSharing(): clearWatch if a watch exists, setIsSharing(false);
\* getCurrentPosition requests are not touched
StopSharing ==
  /\ geo' = [geo EXCEPT !.watch = FALSE, !.isSharing = FALSE, !.stopped = TRUE]
  /\ UNCHANGED <<syncVars, hook>>

\* requestUpdate(): one getCurrentPosition request
RequestUpdate ==
  /\ geo.requests < MaxRequests
  /\ geo' = [geo EXCEPT !.requests = @ + 1, !.stopped = FALSE]
  /\ UNCHANGED <<syncVars, hook>>

\* the watch delivers a fix
WatchFix(lat, conn) ==
  /\ geo.watch
  /\ geo.calls < MaxFixes
  /\ geo' = HandlePosition(geo, lat, conn)
  /\ UNCHANGED <<syncVars, hook>>

\* a getCurrentPosition request is answered with a fix
RequestFix(lat, conn) ==
  /\ geo.requests > 0
  /\ geo.calls < MaxFixes
  /\ geo' = HandlePosition([geo EXCEPT !.requests = @ - 1], lat, conn)
  /\ UNCHANGED <<syncVars, hook>>

\* the watch reports an error: permission denied, timeout or position
\* unavailable
WatchError ==
  /\ geo.watch
  /\ geo' = HandleError(geo)
  /\ UNCHANGED <<syncVars, hook>>

\* a getCurrentPosition request fails
RequestError ==
  /\ geo.requests > 0
  /\ geo' = HandleError([geo EXCEPT !.requests = @ - 1])
  /\ UNCHANGED <<syncVars, hook>>

GeoNext ==
  \/ StartSharing
  \/ StopSharing
  \/ RequestUpdate
  \/ \E lat \in Latitudes, conn \in BOOLEAN : WatchFix(lat, conn)
  \/ \E lat \in Latitudes, conn \in BOOLEAN : RequestFix(lat, conn)
  \/ WatchError
  \/ RequestError

SpecGeo == Init /\ [][GeoNext]_vars

\* C25: a failed geolocation observation is never merged. When the source
\* reports an error, onLocationUpdate is not invoked, currentLocation and
\* the participant's location in the room stay as they were, and the
\* error state is set.
C25_FailedFixNotMerged ==
  [][(WatchError \/ RequestError) =>
       /\ geo'.calls = geo.calls
       /\ geo'.current = geo.current
       /\ geo'.room = geo.room
       /\ geo'.error]_vars

\* C25 witness: an error was reported after a fix had been published; the
\* fix is still the current location and the one in the room.
C25_Witness ==
  /\ geo.error
  /\ geo.calls = 1
  /\ geo.current = 1
  /\ geo.room = 1

\* C29: after stopSharing() has returned, onLocationUpdate is not invoked
\* until startSharing() or requestUpdate() is called again, also when a
\* request started before the stop is answered after it; isSharing is true
\* exactly when a watch is active.
C29_SilentAfterStop ==
  /\ ~geo.late
  /\ geo.isSharing = geo.watch

====
